---------------------------- MODULE Spec2Model ----------------------------
(***************************************************************************)
(* A model of tinkerforge2mqtt: the connection retry helpers and the       *)
(* publish loop of cli_app/publish.py, the DMX light mapper of             *)
(* device_map/bricklet_dmx_light.py and the LCD mapper of                  *)
(* device_map/bricklet_lcd_display.py.                                     *)
(*                                                                         *)
(* Four state machines share the module's variables; each specification   *)
(* moves its own variables and leaves the others at their initial values:  *)
(*   SpecRetry  one call of connect_with_retry / connect_mqtt_with_retry   *)
(*   SpecLoop   publish_loop, which calls the two retry helpers            *)
(*   SpecDMX    the command callbacks and channel writes of one DMX mapper *)
(*   SpecLCD    the text command callback of one LCD mapper                *)
(***************************************************************************)
EXTENDS Integers, Sequences, FiniteSets, TLC

(***************************************************************************)
(* Bounds of the model.                                                    *)
(***************************************************************************)
\* the largest max_retries a caller of the retry helpers passes
MaxRetries == 2
\* how many times the environment (hardware, broker, user) may make a call
\* fail or deliver an interrupt in one behaviour
MaxFaults == 4

VARIABLES
    \* ---- connect_with_retry / connect_mqtt_with_retry (one activation) ----
    rpc,            \* "idle" | "loop" (line 66/103) | "sleep" (line 79/116) | "done"
    kind,           \* "hw": connect_with_retry, "mqtt": connect_mqtt_with_retry
    max_retries,    \* NoneVal or IntVal(n)
    initial_delay,  \* the initial_delay argument, in seconds
    attempt,        \* the local attempt
    delay,          \* the local delay, a rational <<num, exp>> = num / 2^exp seconds
    rresult,        \* "pending" | "True" | "False" | "Error" | "KeyboardInterrupt"
    outcomes,       \* history: the outcome of each call of the attempt operation
                    \* (ipcon.connect / get_connected_client) in this activation
    sleeps,         \* history: the arguments of time.sleep in this activation
    faults,         \* failures and interrupts the environment has produced so far
    \* ---- publish_loop ----
    pc,             \* the position of publish_loop's thread ("none": not running)
    ipcon,          \* the current IPConnection: an index into handles, 0 before the first
    devices_handler,\* the handle the current DevicesHandler is bound to, 0 for None
    mqtt_client,    \* TRUE once connect_mqtt_with_retry has returned a client
    handles,        \* history, per IPConnection created: [connected, regs, disc, enums]
    mqttCalls,      \* history: calls of connect_mqtt_with_retry
    loopStarts,     \* history: calls of mqtt_client.loop_start
    mqttDisconnects,\* history: calls of mqtt_client.disconnect
    lastExit,       \* history: how the operation loop was last left, and on which handle
    interruptedAt,  \* history: where the last KeyboardInterrupt reached publish_loop
    trail,          \* history: what publish_loop did since it last left the operation loop
    \* ---- BrickletDMXMapper and its Light component ----
    dmx_frame,      \* self.dmx_frame: the 512 channel values, slots 0 .. 511
    state_switch,   \* component.state_switch: "ON" | "OFF"
    state_brightness, \* component.state_brightness
    state_rgb,      \* component.state_rgb: <<r, g, b>>
    written,        \* history: the frames the last operation handed to write_frame
    published,      \* history: what the last operation published, <<field, value>>
    lastOp,         \* history: the last operation and its arguments
    offOn,          \* history: "off" after a switch-off command, "off_on" after
                    \* the switch-on command that directly follows it, else "none"
    preOff,         \* history: dmx_frame[0..2] just before that switch-off command, and
                    \* whether the light was on then (after at least one operation)
    \* ---- BrickletLCD128x64Mapper and its Text component ----
    lcd_state,      \* self.lcd_display.state: a string, as a sequence of characters
    lcdLines,       \* history: the lines the last text command was made of
    hwCalls,        \* history: the calls of self.device made by the last text command
    lcdPublished,   \* history: the states the last text command published
    lcdRaised,      \* history: the last text command left display_callback by exception
    \* ---- BrickletDMXMapper operations invoked from several threads ----
    tpc,            \* per thread: "idle", or "write" between an operation's buffer
                    \* update and its write_frame call
    top,            \* per thread: the operation in progress and its argument
    town,           \* history, per thread: the buffer as the operation's update left it
    lastSent        \* history: the frame last passed to write_frame, by which thread,
                    \* and the buffer that thread's operation had produced

retryVars == <<rpc, kind, max_retries, initial_delay, attempt, delay, rresult,
               outcomes, sleeps>>

loopVars == <<pc, ipcon, devices_handler, mqtt_client, handles, mqttCalls,
              loopStarts, mqttDisconnects, lastExit, interruptedAt, trail>>

dmxVars == <<dmx_frame, state_switch, state_brightness, state_rgb, written,
             published, lastOp, offOn, preOff>>

lcdVars == <<lcd_state, lcdLines, hwCalls, lcdPublished, lcdRaised>>

thrVars == <<tpc, top, town, lastSent>>

\* what the retry helpers do not touch
otherVars == <<loopVars, dmxVars, lcdVars, thrVars>>

vars == <<retryVars, faults, loopVars, dmxVars, lcdVars, thrVars>>

(***************************************************************************)
(* Values.                                                                 *)
(***************************************************************************)
\* Optional[int]: None and the integers are kept apart by a tag.
NoneVal == [tag |-> "None", val |-> 0]
IntVal(n) == [tag |-> "int", val |-> n]

RECURSIVE Pow(_, _)
Pow(b, n) == IF n = 0 THEN 1 ELSE b * Pow(b, n - 1)

\* A non-negative rational num / 2^exp in lowest terms.
RECURSIVE Norm(_)
Norm(q) ==
    IF q[1] = 0 THEN <<0, 0>>
    ELSE IF q[2] > 0 /\ q[1] % 2 = 0 THEN Norm(<<q[1] \div 2, q[2] - 1>>)
    ELSE q

\* q1 <= q2 for rationals <<num, exp>>
RatLeq(q1, q2) == q1[1] * Pow(2, q2[2]) <= q2[1] * Pow(2, q1[2])

\* the ceiling of the backoff, 60.0 seconds
MAX_DELAY == 60

\* delay = min(delay * 1.5, 60.0): the products are exact in binary floating
\* point for the initial delays of the model (small integers).
NextDelay(d) ==
    LET p == Norm(<<d[1] * 3, d[2] + 1>>)
    IN  IF RatLeq(p, <<MAX_DELAY, 0>>) THEN p ELSE <<MAX_DELAY, 0>>

\* while max_retries is None or attempt <= max_retries
LoopCondNoNone(m, a) == m.tag = "int" /\ a <= m.val
LoopCond(m, a) == m.tag = "None" \/ a <= m.val

\* if max_retries is not None and attempt > max_retries
ExhaustedOffByOne(m, a) == m.tag # "None" /\ a > m.val + 1
Exhausted(m, a) == m.tag # "None" /\ a > m.val

\* except (TimeoutError, socket.timeout, ConnectionError, OSError): the outcomes
\* of the attempt operation are "ok", a transient error of one of these classes,
\* another exception ("fatal") or a KeyboardInterrupt ("kbd").
TransientAll(outcome) == outcome \in {"transient", "fatal"}
Transient(outcome) == outcome = "transient"

AttemptOutcomes == {"ok", "transient", "fatal", "kbd"}
SleepOutcomes == {"ok", "kbd"}

\* the environment produces a failure only within its budget
MayFail(outcome) == outcome = "ok" \/ faults < MaxFaults
Fault(outcome) == IF outcome = "ok" THEN faults ELSE faults + 1

(***************************************************************************)
(* The state of each machine while it is not running.                      *)
(***************************************************************************)
NoExit == [handle |-> 0, cause |-> "none"]

LoopIdle ==
    /\ pc = "none"
    /\ ipcon = 0
    /\ devices_handler = 0
    /\ mqtt_client = FALSE
    /\ handles = <<>>
    /\ mqttCalls = 0
    /\ loopStarts = 0
    /\ mqttDisconnects = 0
    /\ lastExit = NoExit
    /\ interruptedAt = "none"
    /\ trail = <<>>

\* self.dmx_frame = [0] * 512.  A frame is kept as the finite map of its
\* non-zero slots: every slot 0 .. 511 that is not in the map's domain holds 0,
\* and no slot in the domain holds 0, so equal frames are equal maps.
FRAME_LEN == 512
Slots == 0 .. FRAME_LEN - 1
ZeroFrame == [i \in {} |-> 0]

\* frame[i]
Get(frame, i) == IF i \in DOMAIN frame THEN frame[i] ELSE 0

\* frame[i] = v, for a slot of the list (the callers check the index)
Put(frame, i, v) ==
    IF i \notin Slots THEN frame
    ELSE LET d == IF v = 0 THEN DOMAIN frame \ {i} ELSE DOMAIN frame \cup {i}
         IN  [j \in d |-> IF j = i THEN v ELSE frame[j]]

\* the Light component as setup_sensors creates it: default_brightness=100, and
\* the defaults the callbacks read (component.ON, [255, 255, 255])
DEFAULT_BRIGHTNESS == 100
DEFAULT_RGB == <<255, 255, 255>>
NoOp == [op |-> "none"]
NoPreOff == [rgb |-> <<0, 0, 0>>, was_on |-> FALSE]

DmxIdle ==
    /\ dmx_frame = ZeroFrame
    /\ state_switch = "ON"
    /\ state_brightness = DEFAULT_BRIGHTNESS
    /\ state_rgb = DEFAULT_RGB
    /\ written = <<>>
    /\ published = <<>>
    /\ lastOp = NoOp
    /\ offOn = "none"
    /\ preOff = NoPreOff

\* the threads that may invoke operations of one BrickletDMXMapper
Threads == {1, 2}

NoSent == [by |-> 0, frame |-> ZeroFrame, own |-> ZeroFrame]

ThrIdle ==
    /\ tpc = [t \in Threads |-> "idle"]
    /\ top = [t \in Threads |-> NoOp]
    /\ town = [t \in Threads |-> ZeroFrame]
    /\ lastSent = NoSent

LcdIdle ==
    /\ lcd_state = <<>>
    /\ lcdLines = <<>>
    /\ hwCalls = <<>>
    /\ lcdPublished = <<>>
    /\ lcdRaised = FALSE

RetryIdle ==
    /\ rpc = "idle"
    /\ kind = "hw"
    /\ max_retries = NoneVal
    /\ initial_delay = 1
    /\ attempt = 0
    /\ delay = <<1, 0>>
    /\ rresult = "pending"
    /\ outcomes = <<>>
    /\ sleeps = <<>>


(***************************************************************************)
(* connect_with_retry (lines 50-84) and connect_mqtt_with_retry (87-121):  *)
(* the same control flow around ipcon.connect / get_connected_client.      *)
(***************************************************************************)
\* entry: attempt = 0; delay = initial_delay
RetryCall(k, m, d0) ==
    /\ rpc' = "loop"
    /\ kind' = k
    /\ max_retries' = m
    /\ initial_delay' = d0
    /\ attempt' = 0
    /\ delay' = <<d0, 0>>
    /\ rresult' = "pending"
    /\ outcomes' = <<>>
    /\ sleeps' = <<>>

\* one evaluation of the while condition and, when it holds, one pass of the
\* try block up to the sleep; when it does not hold, the trailing
\* return False / return None
RetryAttempt ==
    /\ rpc = "loop"
    /\ IF ~LoopCond(max_retries, attempt)
       THEN /\ rpc' = "done"
            /\ rresult' = "False"
            /\ UNCHANGED <<attempt, outcomes, faults>>
       ELSE \E outcome \in AttemptOutcomes :
            /\ MayFail(outcome)
            /\ faults' = Fault(outcome)
            /\ outcomes' = Append(outcomes, outcome)
            /\ IF outcome = "ok"
               THEN /\ rpc' = "done"
                    /\ rresult' = "True"
                    /\ attempt' = attempt
               ELSE IF Transient(outcome)
               THEN /\ attempt' = attempt + 1
                    /\ IF Exhausted(max_retries, attempt + 1)
                       THEN rpc' = "done" /\ rresult' = "False"
                       ELSE rpc' = "sleep" /\ rresult' = rresult
               ELSE /\ rpc' = "done"
                    /\ rresult' = IF outcome = "kbd" THEN "KeyboardInterrupt"
                                                     ELSE "Error"
                    /\ attempt' = attempt
    /\ UNCHANGED <<kind, max_retries, initial_delay, delay, sleeps>>
    /\ UNCHANGED otherVars

\* time.sleep(delay); delay = min(delay * 1.5, 60.0)
RetrySleep ==
    /\ rpc = "sleep"
    /\ \E outcome \in SleepOutcomes :
        /\ MayFail(outcome)
        /\ faults' = Fault(outcome)
        /\ sleeps' = Append(sleeps, delay)
        /\ IF outcome = "ok"
           THEN /\ delay' = NextDelay(delay)
                /\ rpc' = "loop"
                /\ rresult' = rresult
           ELSE /\ delay' = delay
                /\ rpc' = "done"
                /\ rresult' = "KeyboardInterrupt"
    /\ UNCHANGED <<kind, max_retries, initial_delay, attempt, outcomes>>
    /\ UNCHANGED otherVars

(***************************************************************************)
(* SpecRetry: one call of a retry helper with arguments of the caller's    *)
(* choice.                                                                 *)
(***************************************************************************)
InitialDelays == {0, 1, 40, 90}
RetryArgs == {NoneVal} \cup {IntVal(n) : n \in -1 .. MaxRetries}

InitRetry ==
    /\ rpc = "loop"
    /\ kind \in {"hw", "mqtt"}
    /\ max_retries \in RetryArgs
    /\ initial_delay \in InitialDelays
    /\ attempt = 0
    /\ delay = <<initial_delay, 0>>
    /\ rresult = "pending"
    /\ outcomes = <<>>
    /\ sleeps = <<>>
    /\ faults = 0
    /\ LoopIdle
    /\ DmxIdle
    /\ LcdIdle
    /\ ThrIdle

NextRetry == RetryAttempt \/ RetrySleep

SpecRetry == InitRetry /\ [][NextRetry]_vars

\* the thread that runs the helper keeps running
FairSpecRetry == SpecRetry /\ WF_vars(NextRetry)

(***************************************************************************)
(* Claims about the retry helpers (checked under SpecRetry).               *)
(***************************************************************************)
nAttempts == Len(outcomes)
nTransient == Cardinality({i \in 1 .. Len(outcomes) : outcomes[i] = "transient"})
OnlyTransient == \A i \in 1 .. Len(outcomes) : outcomes[i] = "transient"

\* C1: with max_retries = N >= 0 the attempt operation is called at most N+1
\* times, and when every one of N+1 attempts has failed with a transient error
\* the call has returned failure (False / None) right then: N sleeps were made
\* and the helper is no longer running.
C1_BoundedAttempts ==
    (max_retries.tag = "int" /\ max_retries.val >= 0) =>
        /\ nAttempts <= max_retries.val + 1
        /\ (OnlyTransient /\ nAttempts = max_retries.val + 1) =>
               /\ rpc = "done"
               /\ rresult = "False"
               /\ Len(sleeps) = max_retries.val

C1_Witness ==
    /\ max_retries = IntVal(MaxRetries)
    /\ OnlyTransient
    /\ nAttempts = MaxRetries + 1
    /\ rresult = "False"

\* C2: with max_retries = None the helper never returns failure, and it
\* eventually returns: True after finitely many transient failures and one
\* success (an exception that is not transient ends the call by propagating).
C2_NeverFalseEventuallyTrue ==
    /\ [](max_retries = NoneVal => rresult # "False")
    /\ [](max_retries = NoneVal /\ rpc = "done" /\ outcomes # <<>>
            /\ outcomes[Len(outcomes)] = "ok" => rresult = "True")
    /\ (max_retries = NoneVal) ~> (rresult \in {"True", "Error", "KeyboardInterrupt"})

C2_Witness ==
    /\ max_retries = NoneVal
    /\ rresult = "True"
    /\ nTransient >= 3
    /\ nAttempts = nTransient + 1

\* min(d0 * 1.5^k, 60) as a rational
ClaimedDelay(d0, k) ==
    LET p == Norm(<<d0 * Pow(3, k), k>>)
    IN  IF RatLeq(p, <<60, 0>>) THEN p ELSE <<60, 0>>

\* C3: the k-th sleep (k = 0, 1, ...) of a retry sequence lasts
\* min(d0 * 1.5^k, 60) seconds and no sleep is longer than 60 seconds, for
\* every initial delay d0.
C3_DelaySchedule ==
    \A i \in 1 .. Len(sleeps) :
        /\ sleeps[i] = ClaimedDelay(initial_delay, i - 1)
        /\ RatLeq(sleeps[i], <<60, 0>>)

\* C4: an attempt that fails with an error that is not transient ends the call:
\* it is the last attempt, no sleep follows it, and the error propagates (the
\* call yields neither True nor False).
C4_FatalPropagates ==
    \A i \in 1 .. Len(outcomes) :
        outcomes[i] = "fatal" =>
            /\ i = Len(outcomes)
            /\ rpc = "done"
            /\ rresult = "Error"
            /\ Len(sleeps) = nTransient

C4_Witness ==
    /\ outcomes # <<>>
    /\ outcomes[Len(outcomes)] = "fatal"
    /\ nTransient >= 1
    /\ rresult = "Error"

(***************************************************************************)
(* publish_loop (lines 124-198).  Each action is one blocking call of the  *)
(* loop's thread together with the control flow that follows it.           *)
(***************************************************************************)
NewHandle == [connected |-> FALSE, regs |-> 0, disc |-> 0, enums |-> FALSE]

\* outcomes of a call made by the loop: any exception (transient or not), or a
\* KeyboardInterrupt delivered while the call runs
CallOutcomes == {"ok", "transient", "fatal", "kbd"}
DisconnectOutcomes == {"ok", "fatal"}

\* ipcon.disconnect() on the current handle: the attempt is recorded, and a
\* disconnect that succeeds leaves the handle unconnected
Disconnected(outcome) ==
    [handles EXCEPT ![ipcon] =
        [@ EXCEPT !.disc = @ + 1,
                  !.connected = IF outcome = "ok" THEN FALSE ELSE @]]

\* line 139: mqtt_client = connect_mqtt_with_retry(user_settings, verbosity, max_retries=None)
PL_Start ==
    /\ pc = "start"
    /\ RetryCall("mqtt", NoneVal, 1)
    /\ pc' = "mqtt_wait"
    /\ mqttCalls' = mqttCalls + 1
    /\ UNCHANGED <<faults, ipcon, devices_handler, mqtt_client, handles, loopStarts,
                   mqttDisconnects, lastExit, interruptedAt, trail>>
    /\ UNCHANGED <<dmxVars, lcdVars, thrVars>>

\* lines 139-144: the helper returns (or an exception leaves publish_loop);
\* None ends publish_loop, a client gets its network loop started
PL_MqttReturn ==
    /\ pc = "mqtt_wait"
    /\ rpc = "done"
    /\ rpc' = "idle"
    /\ IF rresult = "True"
       THEN /\ mqtt_client' = TRUE
            /\ loopStarts' = loopStarts + 1
            /\ pc' = "new_handle"
       ELSE /\ pc' = IF rresult = "False" THEN "returned" ELSE "raised"
            /\ UNCHANGED <<mqtt_client, loopStarts>>
    /\ UNCHANGED <<kind, max_retries, initial_delay, attempt, delay, rresult,
                   outcomes, sleeps, faults>>
    /\ UNCHANGED <<ipcon, devices_handler, handles, mqttCalls, mqttDisconnects,
                   lastExit, interruptedAt, trail>>
    /\ UNCHANGED <<dmxVars, lcdVars, thrVars>>

\* lines 147-153: ipcon = IPConnection(); devices_handler = None;
\* connect_with_retry(ipcon, connect_kwargs, max_retries=None)
PL_NewHandle ==
    /\ pc = "new_handle"
    /\ handles' = Append(handles, NewHandle)
    /\ ipcon' = Len(handles) + 1
    /\ devices_handler' = 0
    /\ RetryCall("hw", NoneVal, 1)
    /\ pc' = "hw_wait"
    /\ trail' = Append(trail, "new_handle")
    /\ UNCHANGED <<faults, mqtt_client, mqttCalls, loopStarts, mqttDisconnects,
                   lastExit, interruptedAt>>
    /\ UNCHANGED <<dmxVars, lcdVars, thrVars>>

\* lines 153-156 and the except clauses of 176 and 187: the helper returns True
\* (go on), False (continue), or an exception reaches the outer try
PL_HwReturn ==
    /\ pc = "hw_wait"
    /\ rpc = "done"
    /\ rpc' = "idle"
    /\ pc' = CASE rresult = "True" -> "setup"
               [] rresult = "False" -> "new_handle"
               [] rresult = "KeyboardInterrupt" -> "kbd_setup"
               [] OTHER -> "cleanup"
    /\ handles' = [handles EXCEPT ![ipcon].connected = (rresult = "True")]
    /\ interruptedAt' = IF rresult = "KeyboardInterrupt" THEN "hw_wait"
                                                         ELSE interruptedAt
    /\ trail' = trail \o [i \in 1 .. Len(outcomes) |-> "connect"]
    /\ UNCHANGED <<kind, max_retries, initial_delay, attempt, delay, rresult,
                   outcomes, sleeps, faults>>
    /\ UNCHANGED <<ipcon, devices_handler, mqtt_client, mqttCalls, loopStarts,
                   mqttDisconnects, lastExit>>
    /\ UNCHANGED <<dmxVars, lcdVars, thrVars>>

\* history: an exception (not an interrupt) of the setup after a successful
\* connect (159-160) is recorded with the handle it happened on
SetupExit(outcome) ==
    CASE outcome = "transient" -> [handle |-> ipcon, cause |-> "setup_transient"]
      [] outcome = "fatal" -> [handle |-> ipcon, cause |-> "setup_fatal"]
      [] OTHER -> lastExit

\* where the loop goes after DevicesHandler(...): on to register_callback, or
\* to the except clause of the outer try that matches the exception
AfterSetupSkipRegister(outcome) ==
    CASE outcome = "ok" -> "enumerate"
      [] outcome = "kbd" -> "kbd_setup"
      [] OTHER -> "cleanup"
AfterSetup(outcome) ==
    CASE outcome = "ok" -> "register"
      [] outcome = "kbd" -> "kbd_setup"
      [] OTHER -> "cleanup"

\* line 159: devices_handler = DevicesHandler(ipcon, ...)
PL_Setup ==
    /\ pc = "setup"
    /\ \E outcome \in CallOutcomes :
        /\ MayFail(outcome)
        /\ faults' = Fault(outcome)
        /\ devices_handler' = IF outcome = "ok" THEN ipcon ELSE devices_handler
        /\ pc' = AfterSetup(outcome)
        /\ interruptedAt' = IF outcome = "kbd" THEN "setup" ELSE interruptedAt
        /\ lastExit' = SetupExit(outcome)
    /\ UNCHANGED retryVars
    /\ UNCHANGED <<ipcon, mqtt_client, handles, mqttCalls, loopStarts,
                   mqttDisconnects, trail>>
    /\ UNCHANGED <<dmxVars, lcdVars, thrVars>>

\* line 160: ipcon.register_callback(IPConnection.CALLBACK_ENUMERATE, devices_handler)
PL_Register ==
    /\ pc = "register"
    /\ \E outcome \in CallOutcomes :
        /\ MayFail(outcome)
        /\ faults' = Fault(outcome)
        /\ handles' = IF outcome = "ok"
                      THEN [handles EXCEPT ![ipcon].regs = @ + 1]
                      ELSE handles
        /\ pc' = CASE outcome = "ok" -> "enumerate"
                   [] outcome = "kbd" -> "kbd_setup"
                   [] OTHER -> "cleanup"
        /\ interruptedAt' = IF outcome = "kbd" THEN "register" ELSE interruptedAt
        /\ trail' = IF outcome = "ok" THEN <<>> ELSE trail
        /\ lastExit' = SetupExit(outcome)
    /\ UNCHANGED retryVars
    /\ UNCHANGED <<ipcon, devices_handler, mqtt_client, mqttCalls, loopStarts,
                   mqttDisconnects>>
    /\ UNCHANGED <<dmxVars, lcdVars, thrVars>>

\* how an exception raised by ipcon.enumerate(), or by the sleep that follows
\* it, leaves the inner try: a KeyboardInterrupt is handled at 167, a transient
\* error breaks the inner loop (172-174), any other exception reaches the outer
\* except Exception (187)
AfterEnumerateFatalEnds(outcome) ==
    CASE outcome = "ok" -> "sleep5"
      [] outcome = "kbd" -> "kbd_op"
      [] outcome = "transient" -> "cleanup"
      [] OTHER -> "raised"
AfterEnumerateNoBreak(outcome) ==
    CASE outcome = "ok" -> "sleep5"
      [] outcome = "kbd" -> "kbd_op"
      [] outcome = "transient" -> "sleep5"
      [] OTHER -> "cleanup"
AfterEnumerate(outcome) ==
    CASE outcome = "ok" -> "sleep5"
      [] outcome = "kbd" -> "kbd_op"
      [] OTHER -> "cleanup"

\* line 165: ipcon.enumerate()
PL_Enumerate ==
    /\ pc = "enumerate"
    /\ \E outcome \in CallOutcomes :
        /\ MayFail(outcome)
        /\ faults' = Fault(outcome)
        /\ handles' = [handles EXCEPT ![ipcon].enums = TRUE]
        /\ pc' = AfterEnumerate(outcome)
        /\ interruptedAt' = IF outcome = "kbd" THEN "enumerate" ELSE interruptedAt
        /\ lastExit' = IF outcome = "ok" THEN lastExit
                       ELSE [handle |-> ipcon, cause |-> outcome]
        /\ trail' = IF outcome \in {"transient", "fatal"} THEN <<"exit">> ELSE trail
    /\ UNCHANGED retryVars
    /\ UNCHANGED <<ipcon, devices_handler, mqtt_client, mqttCalls, loopStarts,
                   mqttDisconnects>>
    /\ UNCHANGED <<dmxVars, lcdVars, thrVars>>

\* line 166: time.sleep(5), inside the same try as enumerate: an exception
\* it raises leaves the try as one of enumerate does
PL_Sleep5 ==
    /\ pc = "sleep5"
    /\ \E outcome \in CallOutcomes :
        /\ MayFail(outcome)
        /\ faults' = Fault(outcome)
        /\ pc' = IF outcome = "ok" THEN "enumerate" ELSE AfterEnumerate(outcome)
        /\ interruptedAt' = IF outcome = "kbd" THEN "sleep5" ELSE interruptedAt
        /\ lastExit' = IF outcome = "ok" THEN lastExit
                       ELSE [handle |-> ipcon, cause |-> outcome]
        /\ trail' = IF outcome \in {"transient", "fatal"} THEN <<"exit">> ELSE trail
    /\ UNCHANGED retryVars
    /\ UNCHANGED <<ipcon, devices_handler, mqtt_client, handles, mqttCalls,
                   loopStarts, mqttDisconnects>>
    /\ UNCHANGED <<dmxVars, lcdVars, thrVars>>

\* lines 167-171: except KeyboardInterrupt of the inner try.  An exception
\* raised by ipcon.disconnect() here leaves the handler and is caught by the
\* outer except Exception (187), which goes on to the cleanup and the next pass.
PL_KbdOperate ==
    /\ pc = "kbd_op"
    /\ \E outcome \in DisconnectOutcomes :
        /\ MayFail(outcome)
        /\ faults' = Fault(outcome)
        /\ handles' = Disconnected(outcome)
        /\ IF outcome = "ok"
           THEN /\ mqttDisconnects' = mqttDisconnects + 1
                /\ pc' = "returned"
                /\ trail' = trail
           ELSE /\ mqttDisconnects' = mqttDisconnects
                /\ pc' = "cleanup"
                /\ trail' = <<"exit">>
    /\ UNCHANGED retryVars
    /\ UNCHANGED <<ipcon, devices_handler, mqtt_client, mqttCalls, loopStarts,
                   lastExit, interruptedAt>>
    /\ UNCHANGED <<dmxVars, lcdVars, thrVars>>

\* lines 176-185: except KeyboardInterrupt of the outer try: both disconnects
\* are inside one try whose except Exception passes
PL_KbdSetup ==
    /\ pc = "kbd_setup"
    /\ \E outcome \in DisconnectOutcomes :
        /\ MayFail(outcome)
        /\ faults' = Fault(outcome)
        /\ handles' = Disconnected(outcome)
        /\ mqttDisconnects' = IF outcome = "ok" THEN mqttDisconnects + 1
                                                ELSE mqttDisconnects
        /\ pc' = "returned"
    /\ UNCHANGED retryVars
    /\ UNCHANGED <<ipcon, devices_handler, mqtt_client, mqttCalls, loopStarts,
                   lastExit, interruptedAt, trail>>
    /\ UNCHANGED <<dmxVars, lcdVars, thrVars>>

\* how the cleanup's try (191-195) is left: except Exception passes, a
\* KeyboardInterrupt leaves publish_loop
AfterCleanupNoCooldown(outcome) ==
    IF outcome = "kbd" THEN "raised" ELSE "new_handle"
AfterCleanupPropagate(outcome) ==
    IF outcome = "ok" THEN "cooldown" ELSE "raised"
AfterCleanup(outcome) ==
    IF outcome = "kbd" THEN "raised" ELSE "cooldown"

\* lines 190-195: the cleanup before the next pass
PL_Cleanup ==
    /\ pc = "cleanup"
    /\ \E outcome \in {"ok", "fatal", "kbd"} :
        /\ MayFail(outcome)
        /\ faults' = Fault(outcome)
        /\ handles' = Disconnected(outcome)
        /\ pc' = AfterCleanup(outcome)
        /\ interruptedAt' = IF outcome = "kbd" THEN "cleanup" ELSE interruptedAt
        /\ trail' = Append(trail, "disconnect")
    /\ UNCHANGED retryVars
    /\ UNCHANGED <<ipcon, devices_handler, mqtt_client, mqttCalls, loopStarts,
                   mqttDisconnects, lastExit>>
    /\ UNCHANGED <<dmxVars, lcdVars, thrVars>>

\* line 198: time.sleep(1), outside every try
PL_Cooldown ==
    /\ pc = "cooldown"
    /\ \E outcome \in SleepOutcomes :
        /\ MayFail(outcome)
        /\ faults' = Fault(outcome)
        /\ pc' = IF outcome = "kbd" THEN "raised" ELSE "new_handle"
        /\ interruptedAt' = IF outcome = "kbd" THEN "cooldown" ELSE interruptedAt
        /\ trail' = Append(trail, "cooldown")
    /\ UNCHANGED retryVars
    /\ UNCHANGED <<ipcon, devices_handler, mqtt_client, handles, mqttCalls,
                   loopStarts, mqttDisconnects, lastExit>>
    /\ UNCHANGED <<dmxVars, lcdVars, thrVars>>

InitLoop ==
    /\ RetryIdle
    /\ faults = 0
    /\ pc = "start"
    /\ ipcon = 0
    /\ devices_handler = 0
    /\ mqtt_client = FALSE
    /\ handles = <<>>
    /\ mqttCalls = 0
    /\ loopStarts = 0
    /\ mqttDisconnects = 0
    /\ lastExit = NoExit
    /\ interruptedAt = "none"
    /\ trail = <<>>
    /\ DmxIdle
    /\ LcdIdle
    /\ ThrIdle

NextLoop ==
    \/ PL_Start \/ PL_MqttReturn \/ PL_NewHandle \/ PL_HwReturn
    \/ PL_Setup \/ PL_Register \/ PL_Enumerate \/ PL_Sleep5
    \/ PL_KbdOperate \/ PL_KbdSetup \/ PL_Cleanup \/ PL_Cooldown
    \/ RetryAttempt \/ RetrySleep

SpecLoop == InitLoop /\ [][NextLoop]_vars

\* publish_loop's thread keeps running while it has a step to take
FairSpecLoop == SpecLoop /\ WF_vars(NextLoop)

(***************************************************************************)
(* Claims about publish_loop (checked under SpecLoop / FairSpecLoop).      *)
(***************************************************************************)
Terminated == pc \in {"returned", "raised"}

\* every handle publish_loop can create within the environment's budget
HandleIds == 1 .. (MaxFaults + 1)

\* C5: a KeyboardInterrupt that reaches publish_loop after MQTT is connected
\* (in a hardware connect retry, in the enumerate/sleep cycle, in the cleanup
\* or in the cool-down) ends the loop: from then on publish_loop only runs an
\* interrupt handler or has ended, and when it has ended disconnect has been
\* attempted on the hardware handle and on the MQTT client.
C5_InterruptTerminates ==
    interruptedAt # "none" =>
        /\ pc \in {"kbd_op", "kbd_setup", "returned", "raised"}
        /\ Terminated => (handles[ipcon].disc >= 1 /\ mqttDisconnects >= 1)

Dropped(h) == lastExit = [handle |-> h, cause |-> "transient"]

\* C6: after a transient error of ipcon.enumerate() (or of the sleep in the
\* same try) on handle h, publish_loop
\* never uses h again, has attempted disconnect on h once it holds another
\* handle, and eventually calls enumerate on a later handle (unless an
\* interrupt ends the loop first); connect_mqtt_with_retry and loop_start are
\* each called exactly once, and no MQTT connect attempt is made once a
\* hardware handle exists.
C6_ReconnectAfterDrop ==
    /\ [](mqttCalls <= 1 /\ loopStarts <= 1)
    /\ [](ipcon >= 1 =>
            /\ mqtt_client /\ mqttCalls = 1 /\ loopStarts = 1
            /\ (rpc \in {"loop", "sleep"} => kind = "hw"))
    /\ [](\A h \in 1 .. Len(handles) :
            Dropped(h) =>
                /\ ~(ipcon = h /\ pc \in {"hw_wait", "setup", "register",
                                          "enumerate", "sleep5"})
                /\ (ipcon # h => handles[h].disc >= 1))
    /\ \A h \in HandleIds :
            Dropped(h) ~>
                (Terminated \/ \E h2 \in (h + 1) .. Len(handles) : handles[h2].enums)

C6_Witness ==
    /\ Dropped(1)
    /\ Len(handles) >= 2
    /\ handles[1].disc >= 1
    /\ handles[2].enums
    /\ ipcon = 2
    /\ pc = "sleep5"
    /\ mqttCalls = 1
    /\ loopStarts = 1

(***************************************************************************)
(* BrickletDMXMapper (bricklet_dmx_light.py).                              *)
(***************************************************************************)
\* floor(log2(num / den)) for positive integers
FloorLog2(num, den) ==
    CHOOSE e \in -10 .. 12 :
        IF e >= 0
        THEN den * Pow(2, e) <= num /\ num < den * Pow(2, e + 1)
        ELSE den <= num * Pow(2, -e) /\ num * Pow(2, -e - 1) < den

RECURSIVE PowMod2(_, _)
PowMod2(n, m) == IF n = 0 THEN 1 % m ELSE (2 * PowMod2(n - 1, m)) % m

\* int(c * (brightness / 100.0)) for integers c, brightness >= 0, as IEEE 754
\* double arithmetic computes it.  brightness / 100.0 is rounded to 53 bits:
\* with s = 52 - FloorLog2(brightness, 100) its mantissa is brightness * 2^s / 100
\* rounded to the nearest integer, t being the remainder of that division.  The
\* product with c is rounded again and int() truncates.  When
\* c * brightness is not a multiple of 100 the two rounding errors (below
\* 2^-52 relative) cannot carry the product across an integer and the result is
\* the floor of the exact quotient.  When it is a multiple of 100, the exact
\* quotient k is representable: the result is k when the factor is exact
\* (brightness / 100 dyadic) or was rounded up, and when the factor was rounded
\* down the product lies c*t/(100*2^s) below k and rounds to k only if that is
\* at most half the spacing of the doubles below k; otherwise int() gives k - 1.
ScaledRound255(c, brightness) == (2 * c * brightness + 255) \div 510
Scaled(c, brightness) ==
    LET k == (c * brightness) \div 100
    IN  IF (c * brightness) % 100 # 0 \/ k = 0 \/ brightness % 25 = 0 THEN k
        ELSE LET eq == FloorLog2(brightness, 100)
                 t == (brightness * PowMod2(52 - eq, 100)) % 100
                 ek == FloorLog2(k, 1)
                 a == (IF k = Pow(2, ek) THEN 2 ELSE 1) + eq
                 lhs == c * t * (IF a >= 0 THEN Pow(2, a) ELSE 1)
                 rhs == 100 * Pow(2, ek) * (IF a >= 0 THEN 1 ELSE Pow(2, -a))
             IN  IF t > 50 \/ lhs <= rhs THEN k ELSE k - 1

\* self.dmx_frame[0] = r; self.dmx_frame[1] = g; self.dmx_frame[2] = b
SetRGB(frame, r, g, b) == Put(Put(Put(frame, 0, r), 1, g), 2, b)

\* the channel values of brightness-scaled colour rgb
ScaledRGB(frame, rgb, brightness) ==
    SetRGB(frame, Scaled(rgb[1], brightness), Scaled(rgb[2], brightness),
           Scaled(rgb[3], brightness))

Channels012(frame) == <<Get(frame, 0), Get(frame, 1), Get(frame, 2)>>

\* the values the commands and direct writes of the model carry
Colors == {<<200, 100, 50>>}
Brightnesses == {57, 150}
ChannelArgs == {<<0, 7>>, <<512, 7>>, <<513, 7>>, <<512, 256>>}
StartArgs == {0, 1, 510, 511}
FixtureColors == {<<1, 2, 3>>}
WriteOutcomes == {"ok", "fail"}

\* whether a command callback reaches set_state_* and publish_state_*: they
\* follow write_frame inside the same try, whose except Exception only logs
StoredAlways(outcome) == TRUE
Stored(outcome) == outcome = "ok"

\* switch_callback (lines 60-100)
DMX_Switch ==
    /\ UNCHANGED <<retryVars, faults, loopVars, lcdVars, thrVars>>
    /\ \E new_state \in {"ON", "OFF"}, outcome \in WriteOutcomes :
        LET is_on == new_state = "ON"
            frame1 == IF is_on
                      THEN ScaledRGB(dmx_frame, state_rgb, state_brightness)
                      ELSE SetRGB(dmx_frame, 0, 0, 0)
        IN  /\ dmx_frame' = frame1
            /\ written' = <<frame1>>
            /\ IF Stored(outcome)
               THEN /\ state_switch' = new_state
                    /\ published' = << <<"switch", new_state>> >>
               ELSE /\ state_switch' = state_switch
                    /\ published' = <<>>
            /\ lastOp' = [op |-> "switch", arg |-> new_state,
                          was_on |-> state_switch = "ON", ok |-> outcome = "ok"]
            /\ offOn' = IF ~is_on THEN "off"
                        ELSE IF offOn = "off" THEN "off_on" ELSE "none"
            /\ preOff' = IF ~is_on
                         THEN [rgb |-> Channels012(dmx_frame),
                               was_on |-> state_switch = "ON" /\ lastOp # NoOp]
                         ELSE IF offOn = "off" THEN preOff ELSE NoPreOff
            /\ UNCHANGED <<state_brightness, state_rgb>>

\* rgb_callback (lines 102-137)
DMX_Rgb ==
    /\ UNCHANGED <<retryVars, faults, loopVars, lcdVars, thrVars>>
    /\ \E new_state \in Colors, outcome \in WriteOutcomes :
        LET is_on == state_switch = "ON"
            frame1 == ScaledRGB(dmx_frame, new_state, state_brightness)
        IN  /\ ~is_on => outcome = "ok"
            /\ dmx_frame' = IF is_on THEN frame1 ELSE dmx_frame
            /\ written' = IF is_on THEN <<frame1>> ELSE <<>>
            /\ IF Stored(outcome)
               THEN /\ state_rgb' = new_state
                    /\ published' = << <<"rgb", new_state>> >>
               ELSE /\ state_rgb' = state_rgb
                    /\ published' = <<>>
            /\ lastOp' = [op |-> "rgb", arg |-> new_state, was_on |-> is_on,
                          ok |-> outcome = "ok"]
            /\ offOn' = "none"
            /\ preOff' = NoPreOff
            /\ UNCHANGED <<state_switch, state_brightness>>

\* brightness_callback (lines 139-174)
DMX_Brightness ==
    /\ UNCHANGED <<retryVars, faults, loopVars, lcdVars, thrVars>>
    /\ \E new_state \in Brightnesses, outcome \in WriteOutcomes :
        LET is_on == state_switch = "ON"
            frame1 == ScaledRGB(dmx_frame, state_rgb, new_state)
        IN  /\ ~is_on => outcome = "ok"
            /\ dmx_frame' = IF is_on THEN frame1 ELSE dmx_frame
            /\ written' = IF is_on THEN <<frame1>> ELSE <<>>
            /\ IF Stored(outcome)
               THEN /\ state_brightness' = new_state
                    /\ published' = << <<"brightness", new_state>> >>
               ELSE /\ state_brightness' = state_brightness
                    /\ published' = <<>>
            /\ lastOp' = [op |-> "brightness", arg |-> new_state, was_on |-> is_on,
                          ok |-> outcome = "ok"]
            /\ offOn' = "none"
            /\ preOff' = NoPreOff
            /\ UNCHANGED <<state_switch, state_rgb>>

\* if 1 <= channel <= 512 and 0 <= value <= 255
ValidChannel(channel, value) ==
    1 <= channel /\ channel <= 512 /\ 0 <= value /\ value <= 255

\* set_dmx_channel (lines 176-187)
DMX_SetChannel ==
    /\ UNCHANGED <<retryVars, faults, loopVars, lcdVars, thrVars>>
    /\ \E args \in ChannelArgs, outcome \in WriteOutcomes :
        LET channel == args[1]
            value == args[2]
            valid == ValidChannel(channel, value)
            frame1 == Put(dmx_frame, channel - 1, value)
        IN  /\ ~valid => outcome = "ok"
            /\ dmx_frame' = IF valid THEN frame1 ELSE dmx_frame
            /\ written' = IF valid THEN <<frame1>> ELSE <<>>
            /\ published' = <<>>
            /\ lastOp' = [op |-> "set_dmx_channel", arg |-> <<channel, value>>,
                          was_on |-> state_switch = "ON", ok |-> outcome = "ok"]
            /\ offOn' = IF offOn = "off" THEN "off" ELSE "none"
            /\ preOff' = preOff
            /\ UNCHANGED <<state_switch, state_brightness, state_rgb>>

\* if 1 <= start_channel <= 510
ValidStartOffByOne(start_channel) == 1 <= start_channel /\ start_channel <= 511
ValidStart(start_channel) == 1 <= start_channel /\ start_channel <= 510

\* set_rgb_fixture (lines 189-202)
DMX_SetFixture ==
    /\ UNCHANGED <<retryVars, faults, loopVars, lcdVars, thrVars>>
    /\ \E start_channel \in StartArgs, rgb \in FixtureColors, outcome \in WriteOutcomes :
        LET valid == ValidStart(start_channel)
            frame1 == Put(Put(Put(dmx_frame, start_channel - 1, rgb[1]),
                                  start_channel, rgb[2]),
                              start_channel + 1, rgb[3])
        IN  /\ ~valid => outcome = "ok"
            /\ dmx_frame' = IF valid THEN frame1 ELSE dmx_frame
            /\ written' = IF valid THEN <<frame1>> ELSE <<>>
            /\ published' = <<>>
            /\ lastOp' = [op |-> "set_rgb_fixture", arg |-> <<start_channel, rgb>>,
                          was_on |-> state_switch = "ON", ok |-> outcome = "ok"]
            /\ offOn' = IF offOn = "off" THEN "off" ELSE "none"
            /\ preOff' = preOff
            /\ UNCHANGED <<state_switch, state_brightness, state_rgb>>

InitDMX ==
    /\ RetryIdle
    /\ faults = 0
    /\ LoopIdle
    /\ DmxIdle
    /\ LcdIdle
    /\ ThrIdle

NextDMX ==
    \/ DMX_Switch \/ DMX_Rgb \/ DMX_Brightness \/ DMX_SetChannel \/ DMX_SetFixture

SpecDMX == InitDMX /\ [][NextDMX]_vars

(***************************************************************************)
(* Claims about the DMX mapper (checked under SpecDMX).                    *)
(***************************************************************************)
\* C7: a switch-off command followed directly by a switch-on command leaves
\* dmx_frame[0..2] equal to the values they held just before the off command
\* (stated for a light that was on when the off command arrived, whatever
\* operations produced the channel values).
C7_OffOnRestores ==
    (offOn = "off_on" /\ preOff.was_on) => Channels012(dmx_frame) = preOff.rgb

\* the slots of channels [o, o + w), channels being 1-based and slots 0-based
FixtureSlots(o, w) == (o - 1) .. (o + w - 2)

\* C8: set_rgb_fixture at 1-based offset o (width 3) changes no slot outside
\* the channels [o, o+3), which take the values r, g, b, and makes one hardware
\* write; when the range does not fit (o < 1 or o + 2 > 512) it makes no
\* hardware write and leaves every slot unchanged.
C8_FixtureWriteFrame ==
    [][lastOp'.op = "set_rgb_fixture" =>
        LET o == lastOp'.arg[1]
            rgb == lastOp'.arg[2]
        IN  IF 1 <= o /\ o + 3 - 1 <= 512
            THEN /\ {i \in 0 .. 511 : Get(dmx_frame', i) # Get(dmx_frame, i)}
                        \subseteq FixtureSlots(o, 3)
                 /\ \A j \in 0 .. 2 : Get(dmx_frame', o - 1 + j) = rgb[j + 1]
                 /\ Len(written') = 1
                 /\ written'[1] = dmx_frame'
            ELSE /\ \A i \in 0 .. 511 : Get(dmx_frame', i) = Get(dmx_frame, i)
                 /\ written' = <<>>
    ]_vars

C8_Witness ==
    /\ lastOp.op = "set_rgb_fixture"
    /\ lastOp.arg[1] = 510
    /\ <<Get(dmx_frame, 509), Get(dmx_frame, 510), Get(dmx_frame, 511)>> = <<1, 2, 3>>
    /\ Channels012(dmx_frame) # <<0, 0, 0>>
    /\ Len(written) = 1

\* round(c * v / 255), for non-negative integers
Round255(c, v) == (2 * c * v + 255) \div 510

\* C9 as stated: with the light on and retained colour (r, g, b), a brightness
\* command v writes the channel values round(r*v/255), round(g*v/255),
\* round(b*v/255).
C9_BrightnessScale255 ==
    (lastOp.op = "brightness" /\ lastOp.was_on) =>
        /\ Len(written) = 1
        /\ Channels012(written[1]) = <<Round255(state_rgb[1], lastOp.arg),
                                       Round255(state_rgb[2], lastOp.arg),
                                       Round255(state_rgb[3], lastOp.arg)>>

\* C9 amended: the brightness is on the Light component's 0-100 scale and the
\* product is truncated: each channel written is floor(c*v/100), or one less
\* than it in cases where c*v is a multiple of 100 (the double product falls
\* just below the integer).  Brightness 150 with retained colour (200, 100, 50)
\* writes (300, 150, 75); brightness 57 writes (113, 56, 28).
C9_BrightnessScale100 ==
    (lastOp.op = "brightness" /\ lastOp.was_on) =>
        /\ Len(written) = 1
        /\ \A i \in 1 .. 3 :
            LET c == state_rgb[i]
                v == lastOp.arg
                w == Get(written[1], i - 1)
            IN  \/ w = (c * v) \div 100
                \/ w = (c * v) \div 100 - 1 /\ (c * v) % 100 = 0
        /\ (state_rgb = <<200, 100, 50>> /\ lastOp.arg = 150) =>
                Channels012(written[1]) = <<300, 150, 75>>
        /\ (state_rgb = <<200, 100, 50>> /\ lastOp.arg = 57) =>
                Channels012(written[1]) = <<113, 56, 28>>

C9_Witness ==
    /\ lastOp.op = "brightness"
    /\ lastOp.was_on
    /\ lastOp.arg = 150
    /\ state_rgb = <<200, 100, 50>>
    /\ Len(written) = 1
    /\ Channels012(written[1]) = <<300, 150, 75>>

(***************************************************************************)
(* BrickletLCD128x64Mapper: the text display handler.                      *)
(* A string is a sequence of one-character strings, so that split, slice   *)
(* and join are computed on characters.                                    *)
(***************************************************************************)

\* the most lines a text command is made of
MaxLines == 5

\* '\\n': the two characters backslash and n
SEP == <<"\\", "n">>

\* lines[:4]
LCD_LINES == 4

\* line_text[:21]
LCD_CHARS == 21

\* 'Fail to write LCD'
FAIL_MSG == <<"F", "a", "i", "l", " ", "t", "o", " ", "w", "r", "i", "t", "e",
              " ", "L", "C", "D">>

\* s[:n] for n >= 0
Take(s, n) == SubSeq(s, 1, IF n < Len(s) THEN n ELSE Len(s))

\* str.find(sep): the first index at which sep occurs in s, 0 when it does not
Find(s, sep) ==
    LET hits == {i \in 1 .. (Len(s) - Len(sep) + 1) :
                    SubSeq(s, i, i + Len(sep) - 1) = sep}
    IN  IF hits = {} THEN 0 ELSE CHOOSE i \in hits : \A j \in hits : i <= j

\* str.split(sep)
RECURSIVE Split(_, _)
Split(s, sep) ==
    LET i == Find(s, sep)
    IN  IF i = 0
        THEN <<s>>
        ELSE <<SubSeq(s, 1, i - 1)>> \o Split(SubSeq(s, i + Len(sep), Len(s)), sep)

\* the text of a command made of the given lines: sep.join(lines)
RECURSIVE Join(_, _)
Join(ls, sep) ==
    IF Len(ls) = 0 THEN <<>>
    ELSE IF Len(ls) = 1 THEN ls[1]
    ELSE ls[1] \o sep \o Join(Tail(ls), sep)

\* the i-th line of a command when it is not empty: its length goes through
\* 30, 2, 21 and 22 with i, and its characters depend on i and on their
\* position; the line of 2 characters is made of the separator's own
\* characters in the other order
LineAt(i) ==
    IF i % 4 = 2 THEN <<"n", "\\">>
    ELSE [j \in 1 .. <<30, 2, 21, 22>>[((i - 1) % 4) + 1] |->
            <<"a", "b", "c", "d", "e">>[((i + j) % 5) + 1]]

\* a command of n lines, the e-th of them empty (none when e = 0)
LinesOf(n, e) == [i \in 1 .. n |-> IF i = e THEN <<>> ELSE LineAt(i)]

InputLines == {LinesOf(n, e) : n \in 1 .. MaxLines, e \in 0 .. MaxLines}

\* lines[:4]
FirstLines(lines) == Take(lines, LCD_LINES)

TruncateNone(line_text) == line_text

\* line_text[:21]
Truncate(line_text) == Take(line_text, LCD_CHARS)

ClearCall == [call |-> "clear_display", row |-> 0, col |-> 0, text |-> <<>>,
              ok |-> TRUE]

WriteLine(line_num, position, text) ==
    [call |-> "write_line", row |-> line_num, col |-> position, text |-> text,
     ok |-> TRUE]

\* the write_line calls of the for loop over enumerate(lines[:4]), from the
\* k-th line on
RECURSIVE LineWrites(_, _)
LineWrites(head, k) ==
    IF k > Len(head) THEN <<>>
    ELSE (IF head[k] # <<>>
          THEN <<WriteLine(k - 1, 0, Truncate(head[k]))>>
          ELSE <<>>) \o LineWrites(head, k + 1)

\* display_callback(new_state), with the poll() it ends with.  failAt = 0: no
\* hardware call raises; failAt = k > 0: the k-th hardware call of the try
\* block raises, and msgOk tells whether the write of the failure message in
\* the except block succeeds.  When that write raises too, the exception
\* leaves display_callback: neither set_state nor poll() is reached.
LCD_Display ==
    /\ UNCHANGED <<retryVars, faults, loopVars, dmxVars, thrVars>>
    /\ \E ls \in InputLines :
        \E new_state \in {Join(ls, SEP)} :
        \E planned \in {<<ClearCall>> \o
                            LineWrites(FirstLines(Split(new_state, SEP)), 1)} :
        \E failAt \in 0 .. Len(planned), msgOk \in BOOLEAN :
        LET tried == [i \in 1 .. failAt |->
                        IF i = failAt THEN [planned[i] EXCEPT !.ok = FALSE]
                        ELSE planned[i]]
            raised == failAt # 0 /\ ~msgOk
            state1 == IF failAt = 0 THEN new_state
                      ELSE IF msgOk THEN FAIL_MSG
                      ELSE lcd_state
        IN  /\ failAt = 0 => msgOk
            /\ lcdLines' = ls
            /\ hwCalls' = IF failAt = 0 THEN planned
                          ELSE tried \o <<[WriteLine(0, 0, FAIL_MSG)
                                            EXCEPT !.ok = msgOk]>>
            /\ lcd_state' = state1
            /\ lcdRaised' = raised
            /\ lcdPublished' = IF raised THEN <<>> ELSE <<state1>>

InitLCD ==
    /\ RetryIdle
    /\ faults = 0
    /\ LoopIdle
    /\ DmxIdle
    /\ LcdIdle
    /\ ThrIdle

NextLCD == LCD_Display

SpecLCD == InitLCD /\ [][NextLCD]_vars

(***************************************************************************)
(* Claims about the text display handler.                                  *)
(***************************************************************************)

\* the write_line calls among the hardware calls of the last command
LineCalls == SelectSeq(hwCalls, LAMBDA c : c.call = "write_line")

\* the number of hardware calls of the last command up to and including the
\* first one that failed (all of them when none failed)
TriedLen ==
    LET bad == {i \in 1 .. Len(hwCalls) : ~hwCalls[i].ok}
    IN  IF bad = {} THEN Len(hwCalls)
        ELSE CHOOSE i \in bad : \A j \in bad : i <= j

\* the rows, among the first four, whose input line is not empty
WantedRows ==
    {r \in 0 .. 3 : r + 1 <= Len(lcdLines) /\ lcdLines[r + 1] # <<>>}

\* C10 as stated: on every text command the display is cleared before any
\* line is written, at most 4 line writes are sent to the hardware, each of
\* them the first 21 characters of one of the first 4 lines of the input at
\* that line's row (nothing of a 5th line, a 30-character line cut to 21),
\* and empty lines produce no write.
C10_AtMostFourLineWrites ==
    lcdLines # <<>> =>
        /\ hwCalls[1].call = "clear_display"
        /\ \A i \in 2 .. Len(hwCalls) : hwCalls[i].call = "write_line"
        /\ Len(LineCalls) <= 4
        /\ \A i \in 1 .. Len(LineCalls) :
            LET c == LineCalls[i]
            IN  /\ Len(c.text) <= 21
                /\ c.row \in WantedRows
                /\ c.col = 0
                /\ c.text = SubSeq(lcdLines[c.row + 1], 1,
                                   IF Len(lcdLines[c.row + 1]) < 21
                                   THEN Len(lcdLines[c.row + 1]) ELSE 21)

\* C10 amended: on every text command the clear is attempted first; then come
\* at most 4 writes of input lines: in row order, one per non-empty line among
\* the first 4 lines of the input, at column 0 of the line's row, of the
\* line's first 21 characters, stopping at the first hardware call that fails;
\* empty lines and lines after the 4th produce no write.  Only when a hardware
\* call failed, one more line write follows: the fixed 17-character failure
\* message at row 0, so that up to 5 line writes are sent.  Every written line
\* is at most 21 characters long.
C10_InputLineWrites ==
    lcdLines # <<>> =>
        LET n == TriedLen
            failed == ~hwCalls[n].ok
            rows == {hwCalls[i].row : i \in 2 .. n}
        IN  /\ hwCalls[1].call = "clear_display"
            /\ n - 1 <= 4
            /\ \A i \in 2 .. n :
                LET c == hwCalls[i]
                IN  /\ c.call = "write_line"
                    /\ c.row \in WantedRows
                    /\ c.col = 0
                    /\ c.text = SubSeq(lcdLines[c.row + 1], 1,
                                       IF Len(lcdLines[c.row + 1]) < 21
                                       THEN Len(lcdLines[c.row + 1]) ELSE 21)
                    /\ \A j \in 2 .. (i - 1) : hwCalls[j].row < c.row
            /\ \A r \in WantedRows :
                r \in rows \/ (failed /\ \A q \in rows : q < r)
            /\ IF failed
               THEN /\ Len(hwCalls) = n + 1
                    /\ hwCalls[n + 1].call = "write_line"
                    /\ hwCalls[n + 1].row = 0
                    /\ hwCalls[n + 1].col = 0
                    /\ hwCalls[n + 1].text = FAIL_MSG
               ELSE Len(hwCalls) = n
            /\ Len(LineCalls) <= 5
            /\ \A i \in 1 .. Len(LineCalls) : Len(LineCalls[i].text) <= 21

\* a 5-line command whose first line has 30 characters and whose second line
\* is empty, all hardware calls succeeding: three line writes, the first of
\* them 21 characters long
C10_Witness ==
    /\ Len(lcdLines) = 5
    /\ Len(lcdLines[1]) = 30
    /\ lcdLines[2] = <<>>
    /\ lcdLines[3] # <<>> /\ lcdLines[4] # <<>> /\ lcdLines[5] # <<>>
    /\ \A i \in 1 .. Len(hwCalls) : hwCalls[i].ok
    /\ Len(hwCalls) = 4
    /\ hwCalls[1].call = "clear_display"
    /\ Len(hwCalls[2].text) = 21
    /\ hwCalls[4].row = 3

\* a hardware call of the last text command failed
HardwareFailed == \E i \in 1 .. Len(hwCalls) : ~hwCalls[i].ok

\* C11: whenever a hardware call (the clear or a line write) fails during a
\* text command, the command ends with the shadow state equal to the fixed
\* failure message and with that message published, also when the write of the
\* failure message itself fails.
C11_FailureMessagePublished ==
    (lcdLines # <<>> /\ HardwareFailed) =>
        /\ lcd_state = FAIL_MSG
        /\ lcdPublished = <<FAIL_MSG>>

(***************************************************************************)
(* Further claims about the lighting fixture handler and the callbacks'    *)
(* republish.                                                              *)
(***************************************************************************)

\* the last operation was one of the three command callbacks
LastIsCommand == lastOp.op \in {"switch", "rgb", "brightness"}

\* the channel values derived from the entity's state fields
Derived ==
    IF state_switch = "OFF" THEN <<0, 0, 0>>
    ELSE Channels012(ScaledRGB(ZeroFrame, state_rgb, state_brightness))

\* C12: after any switch, colour or brightness command completes, also one
\* whose hardware write fails, dmx_frame[0..2] equals the value derived from
\* the entity's state fields: (0, 0, 0) when the switch state is off, the
\* brightness-scaled retained colour when it is on.
C12_FrameReconcilable == LastIsCommand => Channels012(dmx_frame) = Derived

\* C13: every command callback (switch, colour, brightness, text display) ends
\* with a publish of the entity's state, also when the hardware write fails.
C13_AlwaysRepublish ==
    /\ LastIsCommand => published # <<>>
    /\ lcdLines # <<>> => lcdPublished # <<>>

(***************************************************************************)
(* Further claims about publish_loop.                                      *)
(***************************************************************************)

\* handle h has been in the operation loop: its enumeration callback was
\* registered, after which the inner while True is entered
Operated(h) == handles[h].regs >= 1

\* the cleanup's disconnect of handle h, which had been in the operation loop,
\* raised an exception: the cool-down is reached with h still connected
CleanupFailed(h) ==
    /\ pc = "cooldown"
    /\ ipcon = h
    /\ Operated(h)
    /\ handles[h].connected

\* a hardware connect attempt has been made on a handle created after h
ConnectAttemptAfter(h) ==
    /\ ipcon > h
    /\ kind = "hw"
    /\ Len(outcomes) >= 1

\* C14: whenever publish_loop has left the operation loop of a handle (by a
\* transient error, an unexpected error or an interrupt), disconnect has been
\* attempted on that handle before another handle exists and before the loop
\* has ended; a disconnect that fails in the reconnect cleanup does not end the
\* loop (once a hardware handle exists the loop ends by interrupt only) and is
\* followed by a hardware connect attempt on a new handle, unless an interrupt
\* arrives first.
C14_CleanupDisconnects ==
    /\ [](\A h \in 1 .. Len(handles) :
            (Operated(h) /\ (Len(handles) > h \/ Terminated)) =>
                handles[h].disc >= 1)
    /\ []((Terminated /\ ipcon >= 1) => interruptedAt # "none")
    /\ \A h \in HandleIds :
            CleanupFailed(h) ~> (ConnectAttemptAfter(h) \/ interruptedAt # "none")

C14_Witness ==
    /\ Len(handles) = 2
    /\ Operated(1)
    /\ handles[1].enums
    /\ handles[1].disc = 1
    /\ handles[1].connected
    /\ ConnectAttemptAfter(1)
    /\ interruptedAt = "none"

\* what publish_loop has done since it last left an operation loop by an error
\* (or since its start), the connect attempts of the running
\* connect_with_retry included
FullTrail ==
    trail \o (IF pc = "hw_wait" THEN [i \in 1 .. Len(outcomes) |-> "connect"]
                                ELSE <<>>)

\* C15: between an exit from the operation loop caused by an error and the
\* first hardware connect attempt that follows it there is exactly one 1-second
\* cool-down, placed after the cleanup's disconnect; and no handle but the
\* first (the only one the trail can start with) is ever created, so no connect
\* is attempted on it, without a disconnect and then a cool-down directly
\* before it.
C15_CooldownBeforeReconnect ==
    LET t == FullTrail
        firstConnects == {i \in 1 .. Len(t) :
                             /\ t[i] = "connect"
                             /\ \A j \in 1 .. (i - 1) : t[j] # "connect"}
    IN  /\ (t # <<>> /\ t[1] = "exit") =>
                \A i \in firstConnects :
                    SubSeq(t, 1, i - 1) =
                        <<"exit", "disconnect", "cooldown", "new_handle">>
        /\ \A i \in 1 .. Len(t) :
                /\ (t[i] = "new_handle" /\ i > 1) =>
                        /\ i >= 3
                        /\ t[i - 1] = "cooldown"
                        /\ t[i - 2] = "disconnect"
                /\ t[i] = "connect" =>
                        (i > 1 /\ t[i - 1] \in {"new_handle", "connect"})

C15_Witness ==
    /\ pc = "hw_wait"
    /\ FullTrail = <<"exit", "disconnect", "cooldown", "new_handle", "connect">>
    /\ lastExit.cause = "fatal"

\* the operate phase of handle h was last left by an exception of class c:
\* raised by enumerate or the sleep (cause c) or by the devices-handler
\* construction or the callback registration (cause setup_c)
ErrorExit(h, c) ==
    /\ lastExit.handle = h
    /\ lastExit.cause \in (IF c = "fatal" THEN {"fatal", "setup_fatal"}
                                          ELSE {"transient", "setup_transient"})

\* handle h is the current handle of the setup or of the operation loop
InUse(h) ==
    ipcon = h /\ pc \in {"hw_wait", "setup", "register", "enumerate", "sleep5"}

\* C16: an unexpected non-transient error raised in the operate phase (by the
\* devices-handler construction, the callback registration, enumerate or the
\* sleep) never ends publish_loop, which ends by interrupt only; the handle is
\* not used again, disconnect is attempted on it before another handle is
\* current, and a connect attempt on a fresh handle follows unless an interrupt
\* arrives first; a transient error is followed by exactly the same.
C16_UnexpectedErrorReconnects ==
    /\ []((Terminated /\ ipcon >= 1) => interruptedAt # "none")
    /\ [](\A h \in 1 .. Len(handles) : \A c \in {"fatal", "transient"} :
            ErrorExit(h, c) =>
                /\ ~InUse(h)
                /\ pc \in {"cleanup", "kbd_op"} \/ handles[h].disc >= 1)
    /\ \A h \in HandleIds : \A c \in {"fatal", "transient"} :
            ErrorExit(h, c) ~>
                \/ interruptedAt # "none"
                \/ /\ h <= Len(handles)
                   /\ handles[h].disc >= 1
                   /\ ConnectAttemptAfter(h)

C16_Witness ==
    /\ lastExit = [handle |-> 1, cause |-> "fatal"]
    /\ handles[1].enums
    /\ handles[1].disc = 1
    /\ Len(handles) = 2
    /\ ConnectAttemptAfter(1)
    /\ interruptedAt = "none"

\* C17: every hardware connect_with_retry call is made on a handle created for
\* it; enumerate is only called on the newest handle, whose connect has
\* succeeded, on which no disconnect has been attempted and on which the
\* callback of the devices handler created for it has been registered exactly
\* once; no callback is registered twice on a handle; and no hardware connect
\* is attempted before the MQTT client exists and its network loop has been
\* started.
C17_EnumerateOnFreshHandle ==
    /\ [][(pc' = "hw_wait" /\ pc # "hw_wait") =>
            /\ Len(handles') = Len(handles) + 1
            /\ ipcon' = Len(handles')
            /\ handles'[ipcon'] = NewHandle
            /\ devices_handler' = 0]_vars
    /\ [][(ipcon >= 1 /\ handles'[ipcon].enums /\ handles' # handles
                      /\ pc = "enumerate") =>
            /\ ipcon = Len(handles)
            /\ handles[ipcon].connected
            /\ handles[ipcon].disc = 0
            /\ handles[ipcon].regs = 1
            /\ devices_handler = ipcon]_vars
    /\ [](pc \in {"enumerate", "sleep5"} =>
            /\ ipcon = Len(handles)
            /\ handles[ipcon].connected
            /\ handles[ipcon].disc = 0
            /\ handles[ipcon].regs = 1
            /\ devices_handler = ipcon)
    /\ [](\A h \in 1 .. Len(handles) :
            /\ handles[h].regs <= 1
            /\ handles[h].enums => handles[h].regs = 1)
    /\ []((kind = "hw" /\ rpc # "idle") => (mqtt_client /\ loopStarts = 1))
    /\ [](ipcon >= 1 => (mqtt_client /\ loopStarts = 1))

C17_Witness ==
    /\ Len(handles) = 2
    /\ ipcon = 2
    /\ pc = "sleep5"
    /\ handles[2].enums
    /\ handles[2].regs = 1
    /\ handles[1].disc >= 1
    /\ handles[1].enums
    /\ loopStarts = 1

(***************************************************************************)
(* BrickletDMXMapper with its operations invoked from several threads.     *)
(* The class holds no lock: an operation is a buffer update (the           *)
(* assignments to self.dmx_frame) followed by write_frame(self.dmx_frame), *)
(* and steps of other threads may come between the two.  Each update is    *)
(* taken as one step, which allows fewer interleavings than the code does. *)
(***************************************************************************)

\* the values the operations of the threads carry
ThreadBrightnesses == {57}
ThreadStarts == {1}

\* thread t starts operation op with argument arg, leaving the buffer as frame1
Updated(t, op, arg, frame1) ==
    /\ dmx_frame' = frame1
    /\ tpc' = [tpc EXCEPT ![t] = "write"]
    /\ top' = [top EXCEPT ![t] = [op |-> op, arg |-> arg]]
    /\ town' = [town EXCEPT ![t] = frame1]
    /\ UNCHANGED <<state_switch, state_brightness, state_rgb, lastSent>>

\* switch_callback up to the assignments of lines 80-82 / 87-89
T_Switch(t) ==
    /\ tpc[t] = "idle"
    /\ \E new_state \in {"ON", "OFF"} :
        Updated(t, "switch", new_state,
                IF new_state = "ON"
                THEN ScaledRGB(dmx_frame, state_rgb, state_brightness)
                ELSE SetRGB(dmx_frame, 0, 0, 0))
    /\ UNCHANGED <<retryVars, faults, loopVars, lcdVars>>
    /\ UNCHANGED <<written, published, lastOp, offOn, preOff>>

\* rgb_callback up to the assignments of lines 122-124; with the light off
\* the whole callback: it stores the colour
T_Rgb(t) ==
    /\ tpc[t] = "idle"
    /\ \E new_state \in Colors :
        IF state_switch = "ON"
        THEN Updated(t, "rgb", new_state,
                     ScaledRGB(dmx_frame, new_state, state_brightness))
        ELSE /\ state_rgb' = new_state
             /\ UNCHANGED <<dmx_frame, state_switch, state_brightness, thrVars>>
    /\ UNCHANGED <<retryVars, faults, loopVars, lcdVars>>
    /\ UNCHANGED <<written, published, lastOp, offOn, preOff>>

\* brightness_callback up to the assignments of lines 159-161; with the light
\* off the whole callback: it stores the brightness
T_Brightness(t) ==
    /\ tpc[t] = "idle"
    /\ \E new_state \in ThreadBrightnesses :
        IF state_switch = "ON"
        THEN Updated(t, "brightness", new_state,
                     ScaledRGB(dmx_frame, state_rgb, new_state))
        ELSE /\ state_brightness' = new_state
             /\ UNCHANGED <<dmx_frame, state_switch, state_rgb, thrVars>>
    /\ UNCHANGED <<retryVars, faults, loopVars, lcdVars>>
    /\ UNCHANGED <<written, published, lastOp, offOn, preOff>>

\* set_dmx_channel with valid arguments, up to the assignment of line 180
T_SetChannel(t) ==
    /\ tpc[t] = "idle"
    /\ \E args \in ChannelArgs :
        /\ ValidChannel(args[1], args[2])
        /\ Updated(t, "set_dmx_channel", args, Put(dmx_frame, args[1] - 1, args[2]))
    /\ UNCHANGED <<retryVars, faults, loopVars, lcdVars>>
    /\ UNCHANGED <<written, published, lastOp, offOn, preOff>>

\* set_rgb_fixture with a valid start channel, up to the assignments of
\* lines 193-195
T_SetFixture(t) ==
    /\ tpc[t] = "idle"
    /\ \E start_channel \in ThreadStarts, rgb \in FixtureColors :
        /\ ValidStart(start_channel)
        /\ Updated(t, "set_rgb_fixture", <<start_channel, rgb>>,
                   Put(Put(Put(dmx_frame, start_channel - 1, rgb[1]),
                           start_channel, rgb[2]),
                       start_channel + 1, rgb[3]))
    /\ UNCHANGED <<retryVars, faults, loopVars, lcdVars>>
    /\ UNCHANGED <<written, published, lastOp, offOn, preOff>>

\* the rest of the operation: write_frame(self.dmx_frame) sends the buffer as
\* it is now; when it succeeds a command callback stores its new state
T_Write(t) ==
    /\ tpc[t] = "write"
    /\ \E outcome \in WriteOutcomes :
        LET stored == outcome = "ok"
        IN  /\ lastSent' = [by |-> t, frame |-> dmx_frame, own |-> town[t]]
            /\ tpc' = [tpc EXCEPT ![t] = "idle"]
            /\ state_switch' = IF stored /\ top[t].op = "switch"
                               THEN top[t].arg ELSE state_switch
            /\ state_rgb' = IF stored /\ top[t].op = "rgb"
                            THEN top[t].arg ELSE state_rgb
            /\ state_brightness' = IF stored /\ top[t].op = "brightness"
                                   THEN top[t].arg ELSE state_brightness
            /\ top' = [top EXCEPT ![t] = NoOp]
            /\ town' = [town EXCEPT ![t] = ZeroFrame]
            /\ dmx_frame' = dmx_frame
    /\ UNCHANGED <<retryVars, faults, loopVars, lcdVars>>
    /\ UNCHANGED <<written, published, lastOp, offOn, preOff>>

InitThreads ==
    /\ RetryIdle
    /\ faults = 0
    /\ LoopIdle
    /\ DmxIdle
    /\ LcdIdle
    /\ ThrIdle

NextThreads ==
    \E t \in Threads :
        \/ T_Switch(t) \/ T_Rgb(t) \/ T_Brightness(t)
        \/ T_SetChannel(t) \/ T_SetFixture(t) \/ T_Write(t)

SpecThreads == InitThreads /\ [][NextThreads]_vars

\* C18: hardware writes of one lighting fixture handler are serialized: no
\* operation of another thread changes the channel buffer between an
\* operation's buffer update and its write_frame call, so every frame passed
\* to write_frame is the buffer the calling operation itself produced.
C18_WritesSerialized ==
    /\ \A t \in Threads : tpc[t] = "write" => dmx_frame = town[t]
    /\ lastSent.by # 0 => lastSent.frame = lastSent.own

(***************************************************************************)
(* Value ranges and the off state of the lighting fixture handler.         *)
(***************************************************************************)

\* every slot of the frame holds an intensity in 0..255 (the slots a frame
\* does not list hold 0)
InRange(frame) == \A i \in DOMAIN frame : 0 <= frame[i] /\ frame[i] <= 255

\* C19: in every reachable state every slot of the channel buffer, and of
\* every frame passed to write_frame, holds an intensity in 0..255, whatever
\* brightness, colour or channel value a command carries.
C19_SlotsInRange ==
    /\ InRange(dmx_frame)
    /\ \A k \in 1 .. Len(written) : InRange(written[k])

\* the slots of the buffer other than those of channels 1-3
OtherSlots(frame) == [i \in DOMAIN frame \ {0, 1, 2} |-> frame[i]]

\* C20: a switch-off command zeroes channels 1-3 and leaves the retained
\* colour and brightness unchanged; a colour or brightness command that
\* arrives while the switch state is off stores its value in the state field,
\* makes no hardware write, and leaves channels 1-3 at zero and every other
\* slot unchanged.
C20_OffStoresOnly ==
    [][/\ (lastOp'.op = "switch" /\ lastOp'.arg = "OFF") =>
            /\ Channels012(dmx_frame') = <<0, 0, 0>>
            /\ OtherSlots(dmx_frame') = OtherSlots(dmx_frame)
            /\ state_rgb' = state_rgb
            /\ state_brightness' = state_brightness
       /\ (lastOp'.op \in {"rgb", "brightness"} /\ state_switch = "OFF") =>
            /\ written' = <<>>
            /\ (lastOp'.op = "rgb" => state_rgb' = lastOp'.arg)
            /\ (lastOp'.op = "brightness" => state_brightness' = lastOp'.arg)
            /\ Channels012(dmx_frame') = <<0, 0, 0>>
            /\ OtherSlots(dmx_frame') = OtherSlots(dmx_frame)]_vars

\* C21: when write_frame fails inside a switch, colour or brightness command
\* callback, the callback returns (the exception is caught inside it: the step
\* of the callback completes) with the entity's switch, colour and brightness
\* state fields at the values they had before the command, and with nothing
\* published, so that the last published state stays the entity's state.
C21_FailedWriteKeepsState ==
    [][(LastIsCommand' /\ ~lastOp'.ok) =>
            /\ state_switch' = state_switch
            /\ state_rgb' = state_rgb
            /\ state_brightness' = state_brightness
            /\ published' = <<>>]_vars

C21_Witness ==
    /\ lastOp.op = "brightness"
    /\ ~lastOp.ok
    /\ lastOp.arg = 57
    /\ state_switch = "ON"
    /\ state_brightness = 100
    /\ state_rgb = <<255, 255, 255>>
    /\ Channels012(dmx_frame) = <<145, 145, 145>>

=============================================================================
